---- MODULE Spec2Model ----
(***************************************************************************)
(* Model of the cytometry dashboard: the SQLite store of database.py       *)
(* (relations subjects and samples, their declared or replaced schema),    *)
(* the analysis functions of analysis.py, and the page run of app.py that  *)
(* reads the store and applies them.                                       *)
(*                                                                         *)
(* A relation is the sequence of its rows in rowid order.  A percentage is *)
(* the exact rational <<numerator, denominator>> in lowest terms; the      *)
(* IEEE rounding of the float division is not modelled.  The Welch t-test  *)
(* of scipy is not computed: a statistics row keeps the two groups that    *)
(* are handed to ttest_ind.                                                *)
(***************************************************************************)
EXTENDS Integers, Sequences, FiniteSets, TLC

VARIABLES subjects_ddl, samples_ddl, subjects, samples, last,
          full_data, frequency_df, responder_freq_df, stats_df

vars == <<subjects_ddl, samples_ddl, subjects, samples, last,
          full_data, frequency_df, responder_freq_df, stats_df>>

store == <<subjects_ddl, samples_ddl, subjects, samples>>

page == <<full_data, frequency_df, responder_freq_df, stats_df>>

(***************************************************************************)
(* Bounds.                                                                 *)
(***************************************************************************)
\* rows a relation may hold before add_sample is no longer offered
MaxRows == 3

\* rows of an input table of the analysis functions (cohort variety)
MaxInputRows == 4

\* rows of an input table of the analysis functions (count variety)
MaxCountRows == 2

(***************************************************************************)
(* Program constants.                                                      *)
(***************************************************************************)
CELL_POPULATIONS == <<"b_cell", "cd8_t_cell", "cd4_t_cell", "nk_cell", "monocyte">>

\* subjects_ddl and samples_ddl hold the schema a relation has: "absent",
\* "declared" (the CREATE TABLE of create_tables, with its PRIMARY KEY) or
\* "replaced" (the table pandas creates for if_exists='replace': plain
\* columns, no key)

(***************************************************************************)
(* Generic helpers on sequences and rationals.                             *)
(***************************************************************************)
RECURSIVE SumSeq(_)
SumSeq(s) == IF s = <<>> THEN 0 ELSE Head(s) + SumSeq(Tail(s))

RECURSIVE Gcd(_, _)
Gcd(a, b) == IF b = 0 THEN a ELSE Gcd(b, a % b)

RECURSIVE Flatten(_)
Flatten(ss) == IF ss = <<>> THEN <<>> ELSE Head(ss) \o Flatten(Tail(ss))

\* count / total * 100 as a fraction in lowest terms
Ratio(n, d) == LET g == Gcd(n, d) IN <<n \div g, d \div g>>

RatAdd(p, q) == Ratio(p[1] * q[2] + q[1] * p[2], p[2] * q[2])

RECURSIVE RatSum(_)
RatSum(s) == IF s = <<>> THEN <<0, 1>> ELSE RatAdd(Head(s), RatSum(Tail(s)))

(***************************************************************************)
(* Input domains.                                                          *)
(***************************************************************************)
SampleIds == {"s1", "s2"}

SubjectIds == {"sbjA", "sbjB"}

Conditions == {"melanoma", "healthy"}

\* the dictionary app.py builds from the form (its default values for the
\* fields the model does not vary)
FormData(sample_id, subject_id, condition) ==
    [project |-> "prj3", subject_id |-> subject_id, age |-> 65, sex |-> "M",
     condition |-> condition, sample_id |-> sample_id, treatment |-> "miraclib",
     response |-> "yes", sample_type |-> "PBMC", time_from_treatment_start |-> 0,
     b_cell |-> 10000, cd8_t_cell |-> 20000, cd4_t_cell |-> 30000,
     nk_cell |-> 15000, monocyte |-> 18000]

AddInputs ==
    {FormData(i, u, c) : i \in SampleIds, u \in SubjectIds, c \in Conditions}

\* one line of the source file
CsvRow(sample, subject, condition, response, b) ==
    [sample |-> sample, subject |-> subject, project |-> "prj1", age |-> 40,
     sex |-> "F", condition |-> condition, treatment |-> "miraclib",
     response |-> response, sample_type |-> "PBMC",
     time_from_treatment_start |-> 0,
     b_cell |-> b, cd8_t_cell |-> 1, cd4_t_cell |-> 2, nk_cell |-> 0,
     monocyte |-> 1]

\* the source files offered to the loader; missing.csv does not exist
CsvFiles == {"cohort_a.csv", "cohort_b.csv", "empty.csv", "missing.csv"}

CsvReadable(file) == file # "missing.csv"

\* pd.read_csv: the table of a readable file.  cohort_a.csv names sbjA on
\* two lines with different conditions.
read_csv(file) ==
    CASE file = "cohort_a.csv" ->
           <<CsvRow("s1", "sbjA", "melanoma", "yes", 4),
             CsvRow("s2", "sbjA", "healthy", "no", 0)>>
      [] file = "cohort_b.csv" ->
           <<CsvRow("s2", "sbjB", "melanoma", "no", 6)>>
      [] OTHER -> <<>>

(***************************************************************************)
(* database.py                                                             *)
(***************************************************************************)
\* the columns of a subjects row
SubjectRow(subject_id, d) ==
    [subject_id |-> subject_id, project |-> d.project, age |-> d.age,
     sex |-> d.sex, condition |-> d.condition]

\* the columns of a samples row
SampleRow(sample_id, subject_id, d) ==
    [sample_id |-> sample_id, subject_id |-> subject_id,
     treatment |-> d.treatment, response |-> d.response,
     sample_type |-> d.sample_type,
     time_from_treatment_start |-> d.time_from_treatment_start,
     b_cell |-> d.b_cell, cd8_t_cell |-> d.cd8_t_cell,
     cd4_t_cell |-> d.cd4_t_cell, nk_cell |-> d.nk_cell,
     monocyte |-> d.monocyte]

HasSubject(rel, subject_id) == \E i \in 1..Len(rel) : rel[i].subject_id = subject_id

HasSample(rel, sample_id) == \E i \in 1..Len(rel) : rel[i].sample_id = sample_id

\* what `last` records of the operation that ran: its name, its arguments,
\* its return value and the relations as they were before it
Outcome(op, data, sample_id, file, result, rows) ==
    [op |-> op, data |-> data, sample_id |-> sample_id, file |-> file,
     result |-> result, rows |-> rows,
     before |-> [subjects |-> subjects, samples |-> samples,
                 subjects_ddl |-> subjects_ddl, samples_ddl |-> samples_ddl]]

NoData == FormData("", "", "")

NoPage ==
    /\ full_data' = <<>>
    /\ frequency_df' = <<>>
    /\ responder_freq_df' = <<>>
    /\ stats_df' = <<>>

\* CREATE TABLE IF NOT EXISTS, for both relations
create_tables ==
    /\ subjects_ddl' = IF subjects_ddl = "absent" THEN "declared" ELSE subjects_ddl
    /\ samples_ddl' = IF samples_ddl = "absent" THEN "declared" ELSE samples_ddl
    /\ UNCHANGED <<subjects, samples>>
    /\ last' = Outcome("create_tables", NoData, "", "", "ok", 0)
    /\ NoPage

\* DataFrame.drop_duplicates(subset=['subject']): the first row of each subject
RECURSIVE drop_duplicates_seen(_, _)
drop_duplicates_seen(df, seen) ==
    IF df = <<>> THEN <<>>
    ELSE IF Head(df).subject \in seen
         THEN drop_duplicates_seen(Tail(df), seen)
         ELSE <<Head(df)>> \o drop_duplicates_seen(Tail(df), seen \cup {Head(df).subject})

drop_duplicates(df) == drop_duplicates_seen(df, {})

\* subjects_df: the unique-subject projection, subject renamed to subject_id
subjects_df(df) ==
    LET u == drop_duplicates(df)
    IN  [i \in 1..Len(u) |-> SubjectRow(u[i].subject, u[i])]

\* samples_df: every line, renamed, without the subject columns
samples_df(df) ==
    [i \in 1..Len(df) |-> SampleRow(df[i].sample, df[i].subject, df[i])]

\* DataFrame.to_sql(..., if_exists='replace'): the table is dropped and
\* created again from the frame's columns, without any key
to_sql_ddl == "replaced"

\* to_sql with if_exists='append': the frame is added to the rows there
to_sql_append(frame, existing) == existing \o frame

\* the rows of a table after to_sql(frame, if_exists='replace')
to_sql(frame, existing) == frame

load_data_from_csv(file) ==
    /\ IF CsvReadable(file)
       THEN /\ subjects' = to_sql(subjects_df(read_csv(file)), subjects)
            /\ samples' = to_sql(samples_df(read_csv(file)), samples)
            /\ subjects_ddl' = to_sql_ddl
            /\ samples_ddl' = to_sql_ddl
            /\ last' = Outcome("load_data_from_csv", NoData, "", file, "loaded",
                               Len(read_csv(file)))
       ELSE /\ UNCHANGED store
            /\ last' = Outcome("load_data_from_csv", NoData, "", file, "error", 0)
    /\ NoPage

\* SELECT s.*, sub.project, sub.age, sub.sex, sub.condition
\* FROM samples s JOIN subjects sub ON s.subject_id = sub.subject_id
JoinRow(s, sub) ==
    [sample_id |-> s.sample_id, subject_id |-> s.subject_id,
     treatment |-> s.treatment, response |-> s.response,
     sample_type |-> s.sample_type,
     time_from_treatment_start |-> s.time_from_treatment_start,
     b_cell |-> s.b_cell, cd8_t_cell |-> s.cd8_t_cell,
     cd4_t_cell |-> s.cd4_t_cell, nk_cell |-> s.nk_cell,
     monocyte |-> s.monocyte,
     project |-> sub.project, age |-> sub.age, sex |-> sub.sex,
     condition |-> sub.condition]

JoinOne(s, subs) ==
    LET m == SelectSeq(subs, LAMBDA sub : s.subject_id = sub.subject_id)
    IN  [j \in 1..Len(m) |-> JoinRow(s, m[j])]

get_full_dataset ==
    IF samples_ddl = "absent" \/ subjects_ddl = "absent"
    THEN <<>>
    ELSE Flatten([i \in 1..Len(samples) |-> JoinOne(samples[i], subjects)])

\* DELETE FROM samples WHERE sample_id = ?
remove_sample(sample_id) ==
    /\ samples' = SelectSeq(samples, LAMBDA r : r.sample_id # sample_id)
    /\ UNCHANGED <<subjects, subjects_ddl, samples_ddl>>
    /\ last' = Outcome("remove_sample", NoData, sample_id, "", "ok",
                       IF samples_ddl = "absent" THEN 0
                       ELSE Len(samples) - Len(samples'))
    /\ NoPage

\* INSERT OR IGNORE INTO subjects: the row is ignored when the declared
\* primary key finds its subject_id; a table without the key takes every row
insert_or_ignore_subject(data) ==
    IF subjects_ddl = "declared" /\ HasSubject(subjects, data.subject_id)
    THEN subjects
    ELSE Append(subjects, SubjectRow(data.subject_id, data))

\* INSERT INTO samples raises IntegrityError when the declared primary key
\* finds its sample_id
sample_conflict(data) ==
    samples_ddl = "declared" /\ HasSample(samples, data.sample_id)

\* a connection that commits the pending subject insert on the way out
close_committed(data) == insert_or_ignore_subject(data)

\* what the connection leaves behind when it is closed without a commit:
\* the pending subject insert is rolled back
close_uncommitted(data) == subjects

add_sample(data) ==
    /\ UNCHANGED <<subjects_ddl, samples_ddl>>
    /\ NoPage
    /\ IF subjects_ddl = "absent" \/ samples_ddl = "absent"
       THEN /\ UNCHANGED <<subjects, samples>>
            /\ last' = Outcome("add_sample", data, "", "", "other", 0)
       ELSE IF sample_conflict(data)
       THEN /\ subjects' = close_uncommitted(data)
            /\ UNCHANGED samples
            /\ last' = Outcome("add_sample", data, "", "", "duplicate", 0)
       ELSE /\ subjects' = insert_or_ignore_subject(data)
            /\ samples' = Append(samples, SampleRow(data.sample_id, data.subject_id, data))
            /\ last' = Outcome("add_sample", data, "", "", "success", 0)

(***************************************************************************)
(* analysis.py                                                             *)
(***************************************************************************)
\* a total that leaves the last population out
total_count_short(row) ==
    SumSeq([k \in 1..(Len(CELL_POPULATIONS) - 1) |-> row[CELL_POPULATIONS[k]]])

\* df_copy[CELL_POPULATIONS].sum(axis=1)
total_count(row) ==
    SumSeq([k \in 1..Len(CELL_POPULATIONS) |-> row[CELL_POPULATIONS[k]]])

\* a reshape that scans sample-major: the five populations of a row together
melt_sample_major(df) ==
    Flatten([i \in 1..Len(df) |->
               [k \in 1..Len(CELL_POPULATIONS) |->
                  [sample_id |-> df[i].sample_id,
                   total_count |-> SumSeq([m \in 1..Len(CELL_POPULATIONS) |->
                                             df[i][CELL_POPULATIONS[m]]]),
                   population |-> CELL_POPULATIONS[k],
                   count |-> df[i][CELL_POPULATIONS[k]]]]])

\* pd.melt(id_vars=[sample_id, total_count], value_vars=CELL_POPULATIONS):
\* one block per population, the frame's rows in their order inside a block
melt(df) ==
    Flatten([k \in 1..Len(CELL_POPULATIONS) |->
               [i \in 1..Len(df) |->
                  [sample_id |-> df[i].sample_id,
                   total_count |-> total_count(df[i]),
                   population |-> CELL_POPULATIONS[k],
                   count |-> df[i][CELL_POPULATIONS[k]]]]])

\* (count / total_count * 100) if total_count > 0 else 0
percentage(count, total) ==
    IF total > 0 THEN Ratio(count * 100, total) ELSE <<0, 1>>

calculate_frequencies(df) ==
    LET long_df == melt(df)
    IN  [i \in 1..Len(long_df) |->
           [sample |-> long_df[i].sample_id,
            total_count |-> long_df[i].total_count,
            population |-> long_df[i].population,
            count |-> long_df[i].count,
            percentage |-> percentage(long_df[i].count, long_df[i].total_count)]]

\* the caller's frame after calculate_frequencies: the function works on
\* df.copy(), so the new column does not reach it
caller_frame(df) == df

\* the cohort filter of compare_responders
in_cohort(r) ==
    /\ r.condition = "melanoma"
    /\ r.treatment = "miraclib"
    /\ r.sample_type = "PBMC"
    /\ r.response \in {"yes", "no"}

\* pd.merge(freq_df, df[[sample_id, response]], left_on=sample,
\* right_on=sample_id): inner join, one output row per matching pair, in the
\* order of the left frame
merge_response(freq_df, df) ==
    Flatten([i \in 1..Len(freq_df) |->
               LET m == SelectSeq(df, LAMBDA r : r.sample_id = freq_df[i].sample)
               IN  [j \in 1..Len(m) |->
                      [sample |-> freq_df[i].sample,
                       total_count |-> freq_df[i].total_count,
                       population |-> freq_df[i].population,
                       count |-> freq_df[i].count,
                       percentage |-> freq_df[i].percentage,
                       response |-> m[j].response]]])

\* pop_data[pop_data.response == label].percentage
group(full_freq_df, pop, label) ==
    LET g == SelectSeq(full_freq_df,
                       LAMBDA r : r.population = pop /\ r.response = label)
    IN  [i \in 1..Len(g) |-> g[i].percentage]

\* a size check that lets a single observation through
enough_one(responders, non_responders) ==
    Len(responders) >= 1 /\ Len(non_responders) >= 1

\* len(responders) > 1 and len(non_responders) > 1
enough(responders, non_responders) ==
    Len(responders) > 1 /\ Len(non_responders) > 1

\* the loop over CELL_POPULATIONS; the row keeps the arguments of ttest_ind
\* in place of the statistic and the p-value
stats_rows(full_freq_df) ==
    Flatten([k \in 1..Len(CELL_POPULATIONS) |->
               LET pop == CELL_POPULATIONS[k]
                   responders == group(full_freq_df, pop, "yes")
                   non_responders == group(full_freq_df, pop, "no")
               IN  IF enough(responders, non_responders)
                   THEN <<[Population |-> pop, responders |-> responders,
                           non_responders |-> non_responders]>>
                   ELSE <<>>])

compare_responders(df) ==
    LET filtered_df == SelectSeq(df, in_cohort)
        freq_df == calculate_frequencies(filtered_df)
        full_freq_df == merge_response(freq_df, df)
    IN  [full_freq_df |-> full_freq_df, stats_df |-> stats_rows(full_freq_df)]

(***************************************************************************)
(* app.py: the main page of a script run                                   *)
(***************************************************************************)
\* the page is rendered once the store has been initialised
View ==
    /\ subjects_ddl # "absent" /\ samples_ddl # "absent"
    /\ full_data' = caller_frame(get_full_dataset)
    /\ frequency_df' = calculate_frequencies(get_full_dataset)
    /\ responder_freq_df' = compare_responders(full_data').full_freq_df
    /\ stats_df' = compare_responders(full_data').stats_df
    /\ last' = Outcome("view", NoData, "", "", "ok", 0)
    /\ UNCHANGED store

(***************************************************************************)
(* The store and the page: any sequence of the operations.                 *)
(***************************************************************************)
Init ==
    /\ subjects_ddl = "absent"
    /\ samples_ddl = "absent"
    /\ subjects = <<>>
    /\ samples = <<>>
    /\ last = [op |-> "start", data |-> NoData, sample_id |-> "", file |-> "",
               result |-> "ok", rows |-> 0,
               before |-> [subjects |-> <<>>, samples |-> <<>>,
                           subjects_ddl |-> "absent", samples_ddl |-> "absent"]]
    /\ full_data = <<>>
    /\ frequency_df = <<>>
    /\ responder_freq_df = <<>>
    /\ stats_df = <<>>

InitializeSchema == create_tables

BulkLoad == \E file \in CsvFiles : load_data_from_csv(file)

InsertSample ==
    /\ Len(samples) < MaxRows
    /\ Len(subjects) < MaxRows
    /\ \E data \in AddInputs : add_sample(data)

RemoveSample == \E sample_id \in SampleIds \cup {"s9"} : remove_sample(sample_id)

Next ==
    \/ InitializeSchema
    \/ BulkLoad
    \/ InsertSample
    \/ RemoveSample
    \/ View

Spec == Init /\ [][Next]_vars

(***************************************************************************)
(* The analysis functions on their own: a table whose sample identifiers   *)
(* are unique (the data model's tables) is drawn, and the functions are    *)
(* applied to it.                                                          *)
(***************************************************************************)
InputIds == <<"s1", "s2", "s3", "s4", "s5", "s6", "s7", "s8">>

\* <<condition, treatment, sample_type, response>> of an input row
CohortKinds ==
    {<<"melanoma", "miraclib", "PBMC", "yes">>,
     <<"melanoma", "miraclib", "PBMC", "no">>,
     <<"melanoma", "miraclib", "PBMC", "">>,
     <<"carcinoma", "miraclib", "PBMC", "yes">>,
     <<"melanoma", "phauximab", "PBMC", "no">>,
     <<"melanoma", "miraclib", "WB", "yes">>}

\* the five cell counts of an input row
CountVectors ==
    {<<0, 0, 0, 0, 0>>,
     <<100, 100, 100, 100, 100>>,
     <<10000, 20000, 30000, 15000, 18000>>,
     <<1, 0, 0, 0, 0>>,
     <<1, 1, 1, 0, 0>>,
     <<0, 2, 0, 0, 7>>}

DataRow(sample_id, kind, counts) ==
    [sample_id |-> sample_id, subject_id |-> "sbjA", treatment |-> kind[2],
     response |-> kind[4], sample_type |-> kind[3],
     time_from_treatment_start |-> 0,
     b_cell |-> counts[1], cd8_t_cell |-> counts[2], cd4_t_cell |-> counts[3],
     nk_cell |-> counts[4], monocyte |-> counts[5],
     project |-> "prj1", age |-> 40, sex |-> "F", condition |-> kind[1]]

PositionCounts(i) == <<i, 2, 0, 1, i + 1>>

FilterTables ==
    UNION {{[i \in 1..n |-> DataRow(InputIds[i], k[i], PositionCounts(i))] :
              k \in [1..n -> CohortKinds]} : n \in 0..MaxInputRows}

CountTables ==
    UNION {{[i \in 1..n |-> DataRow(InputIds[i],
                                    <<"melanoma", "miraclib", "PBMC", "yes">>,
                                    c[i])] :
              c \in [1..n -> CountVectors]} : n \in 0..MaxCountRows}

\* the example of the testable properties: three yes and three no samples,
\* here with a sample without response and a whole-blood sample after them
ExampleKinds ==
    <<<<"melanoma", "miraclib", "PBMC", "yes">>,
      <<"melanoma", "miraclib", "PBMC", "no">>,
      <<"melanoma", "miraclib", "PBMC", "yes">>,
      <<"melanoma", "miraclib", "PBMC", "no">>,
      <<"melanoma", "miraclib", "PBMC", "yes">>,
      <<"melanoma", "miraclib", "PBMC", "no">>,
      <<"melanoma", "miraclib", "PBMC", "">>,
      <<"melanoma", "miraclib", "WB", "yes">>>>

ExampleTables ==
    {[i \in 1..Len(ExampleKinds) |->
        DataRow(InputIds[i], ExampleKinds[i], PositionCounts(i))]}

InputTables == FilterTables \cup CountTables \cup ExampleTables

InitAnalysis ==
    /\ subjects_ddl = "absent"
    /\ samples_ddl = "absent"
    /\ subjects = <<>>
    /\ samples = <<>>
    /\ last = [op |-> "input", data |-> NoData, sample_id |-> "", file |-> "",
               result |-> "ok", rows |-> 0,
               before |-> [subjects |-> <<>>, samples |-> <<>>,
                           subjects_ddl |-> "absent", samples_ddl |-> "absent"]]
    /\ full_data \in InputTables
    /\ frequency_df = <<>>
    /\ responder_freq_df = <<>>
    /\ stats_df = <<>>

RunFrequencies ==
    /\ full_data' = caller_frame(full_data)
    /\ frequency_df' = calculate_frequencies(full_data)
    /\ last' = Outcome("calculate_frequencies", NoData, "", "", "ok", 0)
    /\ UNCHANGED <<store, responder_freq_df, stats_df>>

RunCompare ==
    /\ responder_freq_df' = compare_responders(full_data).full_freq_df
    /\ stats_df' = compare_responders(full_data).stats_df
    /\ last' = Outcome("compare_responders", NoData, "", "", "ok", 0)
    /\ UNCHANGED <<store, full_data, frequency_df>>

NextAnalysis ==
    \/ RunFrequencies
    \/ RunCompare

SpecAnalysis == InitAnalysis /\ [][NextAnalysis]_vars

(***************************************************************************)
(* Properties.                                                             *)
(***************************************************************************)
RowsWithSample(rel, sample_id) == Len(SelectSeq(rel, LAMBDA r : r.sample_id = sample_id))

\* C1: add_sample with a sample identifier already in the samples relation
\* returns the duplicate-sample-id failure and leaves exactly one row with
\* that identifier, in every reachable state.
C1_DuplicateInsertRejected ==
    (last.op = "add_sample" /\ HasSample(last.before.samples, last.data.sample_id))
        => /\ last.result = "duplicate"
           /\ RowsWithSample(samples, last.data.sample_id) = 1

\* the samples columns of a row of the join
SampleColumns(r) == SampleRow(r.sample_id, r.subject_id, r)

\* C2: the table get_full_dataset returns holds exactly one row for each row
\* of the samples relation: the join neither duplicates nor drops a sample.
C2_FetchAllOneRowPerSample ==
    last.op = "view"
        => /\ Len(full_data) = Len(samples)
           /\ \A i \in 1..Len(samples) :
                Len(SelectSeq(full_data, LAMBDA r : SampleColumns(r) = samples[i]))
                    = Len(SelectSeq(samples, LAMBDA r : r = samples[i]))

\* C3: add_sample with a subject identifier already in the subjects relation
\* leaves the subjects relation as it was: no row added, no field updated.
C3_ExistingSubjectUntouched ==
    (last.op = "add_sample" /\ HasSubject(last.before.subjects, last.data.subject_id))
        => subjects = last.before.subjects

\* the line of the file that gives a subject its project, age, sex and
\* condition: the first one naming the subject
FirstLineOf(df, subject) ==
    df[CHOOSE j \in 1..Len(df) :
         /\ df[j].subject = subject
         /\ \A m \in 1..(j - 1) : df[m].subject # subject]

\* C4: after a successful load of a file, get_full_dataset returns exactly the
\* lines of that file, each with the subject columns of the first line naming
\* its subject, and nothing of what the relations held before.
C4_BulkLoadReplaces ==
    (last.op = "load_data_from_csv" /\ last.result = "loaded")
        => LET df == read_csv(last.file)
               got == get_full_dataset
           IN  /\ Len(got) = Len(df)
               /\ last.rows = Len(df)
               /\ \A i \in 1..Len(df) :
                    LET f == FirstLineOf(df, df[i].subject)
                    IN  /\ got[i].sample_id = df[i].sample
                        /\ got[i].subject_id = df[i].subject
                        /\ got[i].treatment = df[i].treatment
                        /\ got[i].response = df[i].response
                        /\ got[i].sample_type = df[i].sample_type
                        /\ got[i].time_from_treatment_start = df[i].time_from_treatment_start
                        /\ \A k \in 1..Len(CELL_POPULATIONS) :
                             got[i][CELL_POPULATIONS[k]] = df[i][CELL_POPULATIONS[k]]
                        /\ got[i].project = f.project
                        /\ got[i].age = f.age
                        /\ got[i].sex = f.sex
                        /\ got[i].condition = f.condition

\* C4 witness: a file was loaded over relations that an earlier load and a
\* later add_sample had filled, and a row of before is gone.
C4_Witness ==
    /\ last.op = "load_data_from_csv" /\ last.result = "loaded"
    /\ last.file = "cohort_b.csv"
    /\ last.before.samples_ddl = "replaced"
    /\ Len(last.before.samples) = MaxRows
    /\ \E i \in 1..Len(last.before.samples) :
         /\ last.before.samples[i].response = "yes"
         /\ last.before.samples[i].b_cell = 10000
    /\ \E i \in 1..Len(last.before.samples) : last.before.samples[i].b_cell = 4
    /\ Len(get_full_dataset) = 1

\* C5: remove_sample deletes only the rows with the identifier and leaves the
\* subjects relation alone; for an identifier no row has it returns 0 and
\* changes nothing; the count it returns is 0 or 1 in every reachable state.
C5_RemoveSampleFrame ==
    last.op = "remove_sample"
        => /\ samples = SelectSeq(last.before.samples,
                                  LAMBDA r : r.sample_id # last.sample_id)
           /\ subjects = last.before.subjects
           /\ ~HasSample(last.before.samples, last.sample_id)
                 => (last.rows = 0 /\ samples = last.before.samples)
           /\ last.rows \in {0, 1}

\* the cohort filter, written out
PassesFilter(r, label) ==
    /\ r.condition = "melanoma"
    /\ r.treatment = "miraclib"
    /\ r.sample_type = "PBMC"
    /\ r.response = label

\* C6: compare_responders emits a statistics row for a population exactly
\* when, among the rows passing the cohort filter, the yes group and the no
\* group both have more than one observation; rows with a missing or other
\* response count toward neither group.
C6_StatsIffBothGroupsAboveOne ==
    last.op = "compare_responders"
        => \A k \in 1..Len(CELL_POPULATIONS) :
             (Len(SelectSeq(stats_df, LAMBDA r : r.Population = CELL_POPULATIONS[k]))
                 = IF /\ Len(SelectSeq(full_data, LAMBDA r : PassesFilter(r, "yes"))) > 1
                      /\ Len(SelectSeq(full_data, LAMBDA r : PassesFilter(r, "no"))) > 1
                   THEN 1 ELSE 0)

\* C6 witness: statistics are emitted for a table that also holds a row with
\* no response and a row outside the cohort.
C6_Witness ==
    /\ last.op = "compare_responders"
    /\ Len(stats_df) = Len(CELL_POPULATIONS)
    /\ \E i \in 1..Len(full_data) : full_data[i].response = ""
    /\ \E i \in 1..Len(full_data) : full_data[i].sample_type = "WB"

\* the frequency records of the i-th input row
RecordsOf(freq, df, i) ==
    SelectSeq(freq, LAMBDA r : r.sample = df[i].sample_id)

\* C7: for every input row the five percentages sum to 100 when total_count
\* is positive (the five counts sum to total_count and each percentage is
\* 100 * count / total_count), and all five are 0 when total_count is 0.
C7_PercentagesSumTo100 ==
    last.op = "calculate_frequencies"
        => \A i \in 1..Len(full_data) :
             LET recs == RecordsOf(frequency_df, full_data, i)
             IN  /\ Len(recs) = Len(CELL_POPULATIONS)
                 /\ \A j \in 1..Len(recs) :
                      IF recs[j].total_count > 0
                      THEN /\ RatSum([m \in 1..Len(recs) |-> recs[m].percentage]) = <<100, 1>>
                           /\ SumSeq([m \in 1..Len(recs) |-> recs[m].count]) = recs[j].total_count
                           /\ recs[j].percentage[1] * recs[j].total_count
                                = 100 * recs[j].count * recs[j].percentage[2]
                      ELSE recs[j].percentage = <<0, 1>>

\* C7 witness: a table with a row whose total is 0 and a row whose
\* percentages are not whole numbers.
C7_Witness ==
    /\ last.op = "calculate_frequencies"
    /\ \E j \in 1..Len(frequency_df) : frequency_df[j].total_count = 0
    /\ \E j \in 1..Len(frequency_df) : frequency_df[j].percentage[2] = 3

\* C8: calculate_frequencies on n rows returns 5 * n records, population-major
\* in the order of CELL_POPULATIONS with the input order kept inside each
\* population; a second run on the same input returns the same records and
\* the input table is as it was.
C8_PopulationMajorOrder ==
    [][last'.op = "calculate_frequencies"
          => /\ full_data' = full_data
             /\ Len(frequency_df') = 5 * Len(full_data)
             /\ \A k \in 1..5 : \A i \in 1..Len(full_data) :
                  LET r == frequency_df'[(k - 1) * Len(full_data) + i]
                  IN  /\ r.population = <<"b_cell", "cd8_t_cell", "cd4_t_cell",
                                           "nk_cell", "monocyte">>[k]
                      /\ r.sample = full_data[i].sample_id
                      /\ r.count = full_data[i][r.population]
             /\ calculate_frequencies(full_data') = frequency_df']_vars

\* C8 witness: the function ran on a table of at least two rows with
\* different counts.
C8_Witness ==
    /\ last.op = "calculate_frequencies"
    /\ Len(full_data) >= 2
    /\ Len(frequency_df) = 5 * Len(full_data)
    /\ full_data[1].b_cell # full_data[2].b_cell

\* C9 as the spec states it: when the sample insert fails on its identifier
\* after the subject insert went through for a new subject, the subject row
\* stays in the subjects relation.
C9_SubjectKeptOnDuplicate ==
    (/\ last.op = "add_sample"
     /\ last.result = "duplicate"
     /\ ~HasSubject(last.before.subjects, last.data.subject_id))
        => HasSubject(subjects, last.data.subject_id)

\* C9 amended: when add_sample returns the duplicate-sample-id failure, the
\* subject insert of the same call is rolled back with it: both relations
\* are as they were before the call.
C9_DuplicateRollsBack ==
    (last.op = "add_sample" /\ last.result = "duplicate")
        => /\ subjects = last.before.subjects
           /\ samples = last.before.samples

\* C9 witness: the failure for a subject that the store did not hold.
C9_Witness ==
    /\ last.op = "add_sample"
    /\ last.result = "duplicate"
    /\ HasSample(last.before.samples, last.data.sample_id)
    /\ ~HasSubject(last.before.subjects, last.data.subject_id)
    /\ last.before.subjects # <<>>

\* C10: for every table get_full_dataset returns, the merged table of
\* compare_responders holds exactly five records for each sample passing the
\* cohort filter, one per population, each with that sample's response.
C10_MergeOneLabelPerSample ==
    last.op = "view"
        => /\ Len(responder_freq_df)
                = 5 * Len(SelectSeq(full_data, LAMBDA r : PassesFilter(r, "yes")
                                                  \/ PassesFilter(r, "no")))
           /\ \A i \in 1..Len(full_data) :
                (PassesFilter(full_data[i], "yes") \/ PassesFilter(full_data[i], "no"))
                    => \A k \in 1..Len(CELL_POPULATIONS) :
                         /\ Len(SelectSeq(responder_freq_df,
                                  LAMBDA r : /\ r.sample = full_data[i].sample_id
                                             /\ r.population = CELL_POPULATIONS[k])) = 1
                         /\ \A j \in 1..Len(responder_freq_df) :
                              responder_freq_df[j].sample = full_data[i].sample_id
                                  => responder_freq_df[j].response = full_data[i].response

====
